---- MODULE Spec2Model ----
(***************************************************************************)
(* Model of the transaction-generation and batched-submission pipeline of  *)
(* the portfolio rebalancer: classicSwapService (generateTransactionsFrom- *)
(* Swaps, rebalancePortfolio, executePortfolioRebalancing) and             *)
(* unifiedTransactionService (AlchemyTransactionClient and                 *)
(* MiniKitTransactionClient).                                              *)
(*                                                                         *)
(* Conventions: an optional JavaScript value (a field that may be          *)
(* undefined, an argument that may be null) is a set with at most one      *)
(* element; a JavaScript string that the code parses is a sequence of      *)
(* one-character strings; other strings are opaque.                        *)
(***************************************************************************)
EXTENDS Integers, Sequences, FiniteSets, TLC

\* ------------------------------------------------------------------ bounds
MaxSwaps == 2
MaxTxs == 2

\* --------------------------------------------------------------- constants
NativeToken == "0xeeeeeeeeeeeeeeeeeeeeeeeeeeeeeeeeeeeeeeee"
UserAddress == "0xUser"

None == {}
Some(v) == {v}
Get(opt) == CHOOSE v \in opt : TRUE

\* ----------------------------------------------------- strings and BigInt
DecDigits == <<"0", "1", "2", "3", "4", "5", "6", "7", "8", "9">>
HexDigits == DecDigits \o <<"a", "b", "c", "d", "e", "f">>

DigitVal(c, digits) == (CHOOSE k \in 1..Len(digits) : digits[k] = c) - 1
IsDigit(c, digits) == \E k \in 1..Len(digits) : digits[k] = c
AllDigits(s, digits) == Len(s) > 0 /\ \A k \in 1..Len(s) : IsDigit(s[k], digits)

RECURSIVE NumVal(_, _)
NumVal(s, digits) ==
  IF s = <<>> THEN 0
  ELSE NumVal(SubSeq(s, 1, Len(s) - 1), digits) * Len(digits)
       + DigitVal(s[Len(s)], digits)

\* BigInt(string): the empty string is 0n, "0x.." is hexadecimal, an
\* optionally signed run of decimal digits is decimal, anything else is a
\* SyntaxError.
SyntaxErr == [kind |-> "Error", message |-> "Cannot convert to a BigInt"]
BigIntOk(n) == [ok |-> TRUE, val |-> n]
BigIntThrows == [ok |-> FALSE, val |-> 0]
BigInt(s) ==
  IF s = <<>> THEN BigIntOk(0)
  ELSE IF Len(s) >= 2 /\ s[1] = "0" /\ s[2] = "x"
       THEN IF AllDigits(SubSeq(s, 3, Len(s)), HexDigits)
            THEN BigIntOk(NumVal(SubSeq(s, 3, Len(s)), HexDigits))
            ELSE BigIntThrows
  ELSE IF s[1] \in {"-", "+"}
       THEN IF AllDigits(Tail(s), DecDigits)
            THEN BigIntOk((IF s[1] = "-" THEN -1 ELSE 1) * NumVal(Tail(s), DecDigits))
            ELSE BigIntThrows
  ELSE IF AllDigits(s, DecDigits) THEN BigIntOk(NumVal(s, DecDigits))
  ELSE BigIntThrows

\* `v || "0"` on an optional string: undefined and "" are falsy.
OrZero(v) == IF v = None \/ v = Some(<<>>) THEN <<"0">> ELSE Get(v)

\* --------------------------------------------------------------- data sets
SellTokens == {NativeToken, "0xTokenA"}
BuyTokens == {"0xTokenB"}
WeiAmounts == {<<"5">>, <<"1", "2">>}

SwapInstruction ==
  [fromToken : SellTokens, toToken : BuyTokens, amountInWei : WeiAmounts]

RECURSIVE SeqsUpTo(_, _)
SeqsUpTo(S, n) ==
  IF n = 0 THEN {<<>>}
  ELSE LET shorter == SeqsUpTo(S, n - 1)
       IN shorter \cup {Append(s, x) : s \in {t \in shorter : Len(t) = n - 1}, x \in S}

\* Values a caller may put in Transaction.value: well-formed decimal, the
\* empty string, a hexadecimal literal, a fraction, or nothing at all.
ValueStrings == {<<"0">>, <<"7">>, <<>>, <<"0", "x", "1", "0">>, <<"1", ".", "5">>}
InputValues == {None} \cup {Some(s) : s \in ValueStrings}

InputTransaction ==
  [to : {"0xRouter"}, data : {"0xd1", "0xd2"}, value : InputValues,
   type : {"swap"}, reqId : {0}]

\* Thrown values: an Error instance, a string, or some other object.
Err(m) == [kind |-> "Error", message |-> m]
NetworkErrors == {Err("Network Error"), Err("Request failed with status code 400")}
MalformedResponse == Err("Cannot read properties of undefined")
WalletThrows ==
  {Err("User rejected the request"), [kind |-> "string", message |-> "rejected"],
   [kind |-> "object", message |-> ""]}

Hashes == {"0xh1", "0xh2"}

\* ----------------------------------------------------------------- results
RebalanceResult(success, txHash, userOpHash, error, transactionCount) ==
  [success |-> success, txHash |-> txHash, userOpHash |-> userOpHash,
   error |-> error, transactionCount |-> transactionCount]

Pending == [kind |-> "pending", result |-> None, txs |-> None, err |-> None]
Returned(res) == [kind |-> "returned", result |-> Some(res), txs |-> None, err |-> None]
ReturnedList(l) == [kind |-> "returned", result |-> None, txs |-> Some(l), err |-> None]
Threw(e) == [kind |-> "threw", result |-> None, txs |-> None, err |-> Some(e)]

\* `transactions.length` inside a catch block when transactions is null.
LengthOfNull == Err("Cannot read properties of null (reading 'length')")

\* `error instanceof Error ? error.message : fallback`
MessageOr(err, fallback) == IF err.kind = "Error" THEN err.message ELSE fallback

\* catch block of both sendBatchedTransactions implementations
SendCatch(err, fallback, txsOpt) ==
  IF txsOpt = None THEN Threw(LengthOfNull)
  ELSE Returned(RebalanceResult(FALSE, None, None, Some(MessageOr(err, fallback)),
                                Some(Len(Get(txsOpt)))))

\* catch block of rebalancePortfolio
RebalanceCatch(err, txsOpt) ==
  LET errorMessage == IF err.kind \in {"Error", "string"} THEN err.message
                      ELSE "Portfolio rebalancing failed"
  IN IF txsOpt = None THEN Threw(LengthOfNull)
     ELSE Returned(RebalanceResult(FALSE, None, None, Some(errorMessage),
                                   Some(Len(Get(txsOpt)))))

\* Mutant: the orchestrator rethrows instead of reporting.
ExecuteCatchRethrows(err) == Threw(err)

\* catch block of executePortfolioRebalancing
ExecuteCatch(err) ==
  Returned(RebalanceResult(FALSE, None, None,
             Some(MessageOr(err, "Unknown error in rebalancing execution")), None))

\* Mutant: the catch swallows the error and hands back what was built so far.
GenerateCatchPartial(err, built) == ReturnedList(built)

\* catch block of generateTransactionsFromSwaps: log and rethrow
GenerateCatch(err, built) == Threw(err)

\* Mutant: only the null check, the length check forgotten.
NoTransactionsNullOnly(txsOpt) == txsOpt = None

\* `!transactions || transactions.length === 0`
NoTransactions(txsOpt) == txsOpt = None \/ Len(Get(txsOpt)) = 0

\* Mutant: unshift instead of push.
PushFront(list, tx) == <<tx>> \o list

\* transactions.push(tx)
Push(list, tx) == Append(list, tx)

\* ------------------------------------------------------------------ state
VARIABLES
  entry,             \* the exported function the caller invoked
  client,            \* the UnifiedTransactionClient handed in
  swapInstructions,  \* input of generation
  batch,             \* `transactions` argument of rebalancePortfolio / sendBatchedTransactions
  pc,                \* where the single thread of control is
  stack,             \* active calls, innermost last
  transactions,      \* local list of generateTransactionsFromSwaps
  i,                 \* loop index of generateTransactionsFromSwaps (1-based)
  requests,          \* collaborator requests issued so far (axios.get), in order
  walletLog,         \* calls into and returns from the wallet, in order
  userOpHash,        \* local of AlchemyTransactionClient.sendBatchedTransactions
  generated,         \* what generateTransactionsFromSwaps returned, if it did
  genError,          \* the collaborator error that aborted generation, if any
  outcome            \* what the caller of `entry` finally observes

\* State of a call of sendTokenUniversal (tokenTransferService).
VARIABLES
  params             \* the SendTokenParams handed in

vars == <<entry, client, swapInstructions, batch, pc, stack, transactions, i,
          requests, walletLog, userOpHash, generated, genError, outcome, params>>

\* No token transfer was asked for.
NoParams == [tokenAddress |-> "", recipientAddress |-> "", amount |-> <<>>, decimals |-> 0]

\* State of a call of generateOptimalSwaps (the swap optimizer).
VARIABLES
  tokensWithTargets, \* argument of generateOptimalSwaps
  deltas,            \* what calculateDeltas returned
  mpc,               \* where the call is: "idle", "generateOptimalSwaps", "while", "done"
  surplusCopy,       \* local list of generateOptimalSwapPairs
  deficitCopy,       \* local list of generateOptimalSwapPairs
  swaps,             \* the instructions pushed so far; the return value at "done"
  previous           \* what an earlier call on the same argument returned, if any

mvars == <<tokensWithTargets, deltas, mpc, surplusCopy, deficitCopy, swaps, previous>>

\* No call of the optimizer is in progress.
MatcherIdle ==
  /\ tokensWithTargets = <<>>
  /\ deltas = <<>>
  /\ mpc = "idle"
  /\ surplusCopy = <<>>
  /\ deficitCopy = <<>>
  /\ swaps = <<>>
  /\ previous = None

Clients ==
  {[kind |-> "alchemy", address |-> UserAddress], [kind |-> "alchemy", address |-> ""],
   [kind |-> "minikit", address |-> UserAddress], [kind |-> "minikit", address |-> ""],
   [kind |-> "null", address |-> ""]}

Batches == {None} \cup {Some(l) : l \in SeqsUpTo(InputTransaction, MaxTxs)}

Init ==
  /\ entry \in {"executePortfolioRebalancing", "generateTransactionsFromSwaps",
                "rebalancePortfolio", "sendBatchedTransactions"}
  /\ client \in Clients
  /\ entry = "sendBatchedTransactions" => client.kind # "null"
  /\ entry = "generateTransactionsFromSwaps" => client.kind = "null"
  /\ IF entry \in {"executePortfolioRebalancing", "generateTransactionsFromSwaps"}
     THEN swapInstructions \in SeqsUpTo(SwapInstruction, MaxSwaps) /\ batch = None
     ELSE swapInstructions = <<>> /\ batch \in Batches
  /\ pc = entry
  /\ stack = <<entry>>
  /\ transactions = <<>>
  /\ i = 1
  /\ requests = <<>>
  /\ walletLog = <<>>
  /\ userOpHash = ""
  /\ generated = None
  /\ genError = None
  /\ outcome = Pending
  /\ params = NoParams
  /\ MatcherIdle

\* ------------------------------------------------------- call completion
\* An outcome leaving a callee passes through the callers' try/catch blocks.
RECURSIVE Propagate(_, _, _)
Propagate(callers, out, txsOpt) ==
  IF callers = <<>> THEN out
  ELSE LET top == callers[Len(callers)]
           rest == SubSeq(callers, 1, Len(callers) - 1)
           seen == IF out.kind # "threw" THEN out
                   ELSE IF top = "rebalancePortfolio"
                        THEN RebalanceCatch(Get(out.err), txsOpt)
                   ELSE IF top = "executePortfolioRebalancing"
                        THEN ExecuteCatch(Get(out.err))
                   ELSE out
       IN Propagate(rest, seen, txsOpt)

Callers == SubSeq(stack, 1, Len(stack) - 1)

\* The innermost call completes with `out`; control returns to the caller of `entry`.
Complete(out) ==
  /\ outcome' = Propagate(Callers, out, batch)
  /\ pc' = "done"
  /\ stack' = <<>>

\* ------------------------------------------------ transaction generation
ApprovalRequest(swap) ==
  [api |-> "approve", src |-> swap.fromToken, dst |-> "", amount |-> swap.amountInWei,
   from |-> ""]
SwapRequest(swap) ==
  [api |-> "swap", src |-> swap.fromToken, dst |-> swap.toToken,
   amount |-> swap.amountInWei, from |-> UserAddress]

\* What the 1inch proxy may answer: target, call data, optional value.
ApprovalResponses == [to : {"0xTokenA"}, data : {"0xapprove"}, value : {None, Some(<<"0">>)}]
\* The swap endpoint's `tx.value` is the amount sold when the sell token is
\* the native asset and zero (or left out) when it is an ERC-20 token.
SwapResponses(req) ==
  [to : {"0xRouter"}, data : {"0xswap"},
   value : IF req.src = NativeToken THEN {Some(req.amount)} ELSE {None, Some(<<"0">>)}]
CollaboratorErrors == NetworkErrors \cup {MalformedResponse}

\* reqId: position in `requests` of the request this transaction answers.
ApprovalTransaction(resp, reqId) ==
  [to |-> resp.to, data |-> resp.data, value |-> Some(OrZero(resp.value)),
   type |-> "approval", reqId |-> reqId]
\* Mutant: the value the router asked for is replaced by the usual "0".
SwapTransactionZeroValue(resp, reqId) ==
  [to |-> resp.to, data |-> resp.data, value |-> Some(<<"0">>),
   type |-> "swap", reqId |-> reqId]

SwapTransaction(resp, reqId) ==
  [to |-> resp.to, data |-> resp.data, value |-> Some(OrZero(resp.value)),
   type |-> "swap", reqId |-> reqId]

\* Mutant: the native-asset shortcut is missing.
NeverSkipsApproval(tokenAddress) == FALSE

\* get1inchApprovalTransaction returns null for the native sentinel
SkipsApproval(tokenAddress) == tokenAddress = NativeToken

\* generateTransactionsFromSwaps leaves with `out` (a list or a throw).
GenerateFinishes(out) ==
  /\ generated' = out.txs
  /\ IF out.kind = "returned" /\ Callers # <<>>
     THEN /\ batch' = out.txs
          /\ stack' = Append(Callers, "rebalancePortfolio")
          /\ pc' = "rebalancePortfolio"
          /\ UNCHANGED outcome
     ELSE /\ Complete(out)
          /\ UNCHANGED batch

ExecutePortfolioRebalancing ==
  /\ pc = "executePortfolioRebalancing"
  /\ stack' = Append(stack, "generateTransactionsFromSwaps")
  /\ pc' = "generateTransactionsFromSwaps"
  /\ UNCHANGED <<entry, client, swapInstructions, batch, transactions, i, requests,
                 walletLog, userOpHash, generated, genError, outcome>>
  /\ UNCHANGED <<params, mvars>>

GenerateTransactionsFromSwaps ==
  /\ pc = "generateTransactionsFromSwaps"
  /\ transactions' = <<>>
  /\ i' = 1
  /\ pc' = "loop"
  /\ UNCHANGED <<entry, client, swapInstructions, batch, stack, requests, walletLog,
                 userOpHash, generated, genError, outcome>>
  /\ UNCHANGED <<params, mvars>>

\* Mutant: the approval and the swap are requested together.
GenerateLoopFanOut ==
  /\ pc = "loop"
  /\ IF i > Len(swapInstructions)
     THEN /\ GenerateFinishes(ReturnedList(transactions))
          /\ UNCHANGED requests
     ELSE LET swap == swapInstructions[i]
          IN /\ IF SkipsApproval(swap.fromToken)
                THEN /\ requests' = Append(requests, SwapRequest(swap))
                     /\ pc' = "awaitSwap"
                ELSE /\ requests' = requests \o <<ApprovalRequest(swap), SwapRequest(swap)>>
                     /\ pc' = "awaitApproval"
             /\ UNCHANGED <<batch, stack, generated, outcome>>
  /\ UNCHANGED <<entry, client, swapInstructions, transactions, i, walletLog,
                 userOpHash, genError>>
  /\ UNCHANGED <<params, mvars>>

\* Loop head: leave the loop, or start instruction i with its approval step.
GenerateLoop ==
  /\ pc = "loop"
  /\ IF i > Len(swapInstructions)
     THEN /\ GenerateFinishes(ReturnedList(transactions))
          /\ UNCHANGED requests
     ELSE LET swap == swapInstructions[i]
          IN /\ IF SkipsApproval(swap.fromToken)
                THEN /\ requests' = Append(requests, SwapRequest(swap))
                     /\ pc' = "awaitSwap"
                ELSE /\ requests' = Append(requests, ApprovalRequest(swap))
                     /\ pc' = "awaitApproval"
             /\ UNCHANGED <<batch, stack, generated, outcome>>
  /\ UNCHANGED <<entry, client, swapInstructions, transactions, i, walletLog,
                 userOpHash, genError>>
  /\ UNCHANGED <<params, mvars>>

ApprovalResponds ==
  /\ pc = "awaitApproval"
  /\ \E resp \in ApprovalResponses :
       transactions' = Push(transactions, ApprovalTransaction(resp, Len(requests)))
  /\ requests' = Append(requests, SwapRequest(swapInstructions[i]))
  /\ pc' = "awaitSwap"
  /\ UNCHANGED <<entry, client, swapInstructions, batch, stack, i, walletLog,
                 userOpHash, generated, genError, outcome>>
  /\ UNCHANGED <<params, mvars>>

ApprovalFails ==
  /\ pc = "awaitApproval"
  /\ \E err \in CollaboratorErrors :
       /\ genError' = Some(err)
       /\ GenerateFinishes(GenerateCatch(err, transactions))
  /\ UNCHANGED <<entry, client, swapInstructions, transactions, i, requests, walletLog,
                 userOpHash>>
  /\ UNCHANGED <<params, mvars>>

SwapResponds ==
  /\ pc = "awaitSwap"
  /\ \E resp \in SwapResponses(requests[Len(requests)]) :
       transactions' = Push(transactions, SwapTransaction(resp, Len(requests)))
  /\ i' = i + 1
  /\ pc' = "loop"
  /\ UNCHANGED <<entry, client, swapInstructions, batch, stack, requests, walletLog,
                 userOpHash, generated, genError, outcome>>
  /\ UNCHANGED <<params, mvars>>

SwapFails ==
  /\ pc = "awaitSwap"
  /\ \E err \in CollaboratorErrors :
       /\ genError' = Some(err)
       /\ GenerateFinishes(GenerateCatch(err, transactions))
  /\ UNCHANGED <<entry, client, swapInstructions, transactions, i, requests, walletLog,
                 userOpHash>>
  /\ UNCHANGED <<params, mvars>>

\* ---------------------------------------------------- rebalancePortfolio
\* Mutant: the backend's address precondition dropped.
AddressNeverMissing(c) == FALSE

\* `!this.client?.account?.address` (Alchemy), `!this._address` (MiniKit)
AddressMissing(c) == c.address = ""

\* `!client?.address`
ClientUnavailable(c) == c.kind = "null" \/ c.address = ""

RebalancePortfolio ==
  /\ pc = "rebalancePortfolio"
  /\ IF ClientUnavailable(client)
     THEN Complete(RebalanceCatch(Err("Transaction client not available"), batch))
     ELSE IF NoTransactions(batch)
     THEN Complete(RebalanceCatch(Err("No transactions to execute"), batch))
     ELSE /\ stack' = Append(stack, "sendBatchedTransactions")
          /\ pc' = "sendBatchedTransactions"
          /\ UNCHANGED outcome
  /\ UNCHANGED <<entry, client, swapInstructions, batch, transactions, i, requests,
                 walletLog, userOpHash, generated, genError>>
  /\ UNCHANGED <<params, mvars>>

\* ------------------------------------------------------------- the wallet
WalletEvent(op, phase, calls, hash) ==
  [op |-> op, phase |-> phase, calls |-> calls, hash |-> hash]

\* transactions.map(tx => ({target, data, value: BigInt(tx.value || "0")}))
ToUserOperations(txs) ==
  [k \in 1..Len(txs) |->
     [target |-> txs[k].to, data |-> txs[k].data,
      value |-> BigInt(OrZero(txs[k].value)).val]]

\* Mutant: the value of each call is dropped.
ToCallsNoValue(txs) ==
  [k \in 1..Len(txs) |-> [to |-> txs[k].to, data |-> txs[k].data, value |-> 0]]

\* transactions.map(tx => ({to, data, value: BigInt(tx.value || "0")}))
ToCalls(txs) ==
  [k \in 1..Len(txs) |->
     [to |-> txs[k].to, data |-> txs[k].data,
      value |-> BigInt(OrZero(txs[k].value)).val]]

\* the map throws a SyntaxError at the first value BigInt cannot parse
MapThrows(txs) == \E k \in 1..Len(txs) : ~BigInt(OrZero(txs[k].value)).ok

\* what sendUserOperation resolves to: a hash string or an object with a hash
UserOpResults ==
  {[isString |-> TRUE, str |-> h, hash |-> ""] : h \in Hashes}
    \cup {[isString |-> FALSE, str |-> "", hash |-> h] : h \in Hashes}

\* Mutant: the result is always taken to be a string.
UserOpHashAsString(userOpResult) == userOpResult.str

\* typeof userOpResult === 'string' ? userOpResult : userOpResult.hash
UserOpHashOf(userOpResult) ==
  IF userOpResult.isString THEN userOpResult.str ELSE userOpResult.hash

TxHashes == {"0xmined1", "0xmined2"}
CallsIds == {"calls-1", "calls-2"}

\* Mutant: the mined hash is left out of the success result.
AlchemySuccessNoTxHash(txHash, uoHash, txs) ==
  RebalanceResult(TRUE, None, Some(uoHash), None, Some(Len(txs)))

AlchemySuccess(txHash, uoHash, txs) ==
  RebalanceResult(TRUE, Some(txHash), Some(uoHash), None, Some(Len(txs)))

\* Mutant: a placeholder instead of the identifier sendCalls returned.
MiniKitSuccessPlaceholder(callsId, txs) ==
  RebalanceResult(TRUE, Some("pending"), None, None, Some(Len(txs)))

MiniKitSuccess(callsId, txs) ==
  RebalanceResult(TRUE, Some(callsId), None, None, Some(Len(txs)))

AlchemyFallback == "Alchemy transaction failed"
MiniKitFallback == "MiniKit transaction failed"

\* ------------------------------------------------ AlchemyTransactionClient
AlchemySendBatchedTransactions ==
  /\ pc = "sendBatchedTransactions"
  /\ client.kind = "alchemy"
  /\ IF AddressMissing(client)
     THEN /\ Complete(SendCatch(Err("Smart account client not available"),
                                AlchemyFallback, batch))
          /\ UNCHANGED walletLog
     ELSE IF NoTransactions(batch)
     THEN /\ Complete(SendCatch(Err("No transactions to execute"), AlchemyFallback, batch))
          /\ UNCHANGED walletLog
     ELSE IF MapThrows(Get(batch))
     THEN /\ Complete(SendCatch(SyntaxErr, AlchemyFallback, batch))
          /\ UNCHANGED walletLog
     ELSE /\ walletLog' = Append(walletLog,
               WalletEvent("sendUserOperation", "call", ToUserOperations(Get(batch)), ""))
          /\ pc' = "awaitSendUserOperation"
          /\ UNCHANGED <<stack, outcome>>
  /\ UNCHANGED <<entry, client, swapInstructions, batch, transactions, i, requests,
                 userOpHash, generated, genError>>
  /\ UNCHANGED <<params, mvars>>

\* sendUserOperation resolves; the wait for mining is issued with its hash
AlchemyUserOperationAccepted ==
  /\ pc = "awaitSendUserOperation"
  /\ \E userOpResult \in UserOpResults :
       /\ userOpHash' = UserOpHashOf(userOpResult)
       /\ walletLog' = walletLog \o
            << WalletEvent("sendUserOperation", "return", <<>>,
                           IF userOpResult.isString THEN userOpResult.str
                           ELSE userOpResult.hash),
               WalletEvent("waitForUserOperationTransaction", "call", <<>>,
                           UserOpHashOf(userOpResult)) >>
  /\ pc' = "awaitMined"
  /\ UNCHANGED <<entry, client, swapInstructions, batch, stack, transactions, i,
                 requests, generated, genError, outcome>>
  /\ UNCHANGED <<params, mvars>>

AlchemyUserOperationRejected ==
  /\ pc = "awaitSendUserOperation"
  /\ \E err \in WalletThrows :
       /\ walletLog' = Append(walletLog, WalletEvent("sendUserOperation", "throw", <<>>, ""))
       /\ Complete(SendCatch(err, AlchemyFallback, batch))
  /\ UNCHANGED <<entry, client, swapInstructions, batch, transactions, i, requests,
                 userOpHash, generated, genError>>
  /\ UNCHANGED <<params, mvars>>

AlchemyMined ==
  /\ pc = "awaitMined"
  /\ \E txHash \in TxHashes :
       /\ walletLog' = Append(walletLog,
            WalletEvent("waitForUserOperationTransaction", "return", <<>>, txHash))
       /\ Complete(Returned(AlchemySuccess(txHash, userOpHash, Get(batch))))
  /\ UNCHANGED <<entry, client, swapInstructions, batch, transactions, i, requests,
                 userOpHash, generated, genError>>
  /\ UNCHANGED <<params, mvars>>

AlchemyWaitFails ==
  /\ pc = "awaitMined"
  /\ \E err \in WalletThrows :
       /\ walletLog' = Append(walletLog,
            WalletEvent("waitForUserOperationTransaction", "throw", <<>>, ""))
       /\ Complete(SendCatch(err, AlchemyFallback, batch))
  /\ UNCHANGED <<entry, client, swapInstructions, batch, transactions, i, requests,
                 userOpHash, generated, genError>>
  /\ UNCHANGED <<params, mvars>>

\* ------------------------------------------------ MiniKitTransactionClient
MiniKitSendBatchedTransactions ==
  /\ pc = "sendBatchedTransactions"
  /\ client.kind = "minikit"
  /\ IF AddressMissing(client)
     THEN /\ Complete(SendCatch(Err("Wallet address not available"), MiniKitFallback, batch))
          /\ UNCHANGED walletLog
     ELSE IF NoTransactions(batch)
     THEN /\ Complete(SendCatch(Err("No transactions to execute"), MiniKitFallback, batch))
          /\ UNCHANGED walletLog
     ELSE IF MapThrows(Get(batch))
     THEN /\ Complete(SendCatch(SyntaxErr, MiniKitFallback, batch))
          /\ UNCHANGED walletLog
     ELSE /\ walletLog' = Append(walletLog,
               WalletEvent("sendCalls", "call", ToCalls(Get(batch)), ""))
          /\ pc' = "awaitSendCalls"
          /\ UNCHANGED <<stack, outcome>>
  /\ UNCHANGED <<entry, client, swapInstructions, batch, transactions, i, requests,
                 userOpHash, generated, genError>>
  /\ UNCHANGED <<params, mvars>>

MiniKitCallsSubmitted ==
  /\ pc = "awaitSendCalls"
  /\ \E callsId \in CallsIds :
       /\ walletLog' = Append(walletLog, WalletEvent("sendCalls", "return", <<>>, callsId))
       /\ Complete(Returned(MiniKitSuccess(callsId, Get(batch))))
  /\ UNCHANGED <<entry, client, swapInstructions, batch, transactions, i, requests,
                 userOpHash, generated, genError>>
  /\ UNCHANGED <<params, mvars>>

MiniKitCallsRejected ==
  /\ pc = "awaitSendCalls"
  /\ \E err \in WalletThrows :
       /\ walletLog' = Append(walletLog, WalletEvent("sendCalls", "throw", <<>>, ""))
       /\ Complete(SendCatch(err, MiniKitFallback, batch))
  /\ UNCHANGED <<entry, client, swapInstructions, batch, transactions, i, requests,
                 userOpHash, generated, genError>>
  /\ UNCHANGED <<params, mvars>>

\* ---------------------------------------- tokenTransferService: addresses
ZeroAddress == "0x0000000000000000000000000000000000000000"
ChecksumNative == "0xEeeeeEeeeEeEeeEeEeEeeEEEeeeeEeeeeeeeEEeE"
Usdc == "0x833589fCD6eDb6E08f4c7C32D4f71b54bdA02913"
UsdcLowerCase == "0x833589fcd6edb6e08f4c7c32d4f71b54bda02913"

\* String.prototype.toLowerCase on the addresses of the model (the others
\* have no upper-case letter)
toLowerCase(s) ==
  CASE s = ChecksumNative -> NativeToken
    [] s = Usdc -> UsdcLowerCase
    [] OTHER -> s

ethAddresses == <<ZeroAddress, NativeToken, ChecksumNative>>

\* ethAddresses.includes(tokenAddress.toLowerCase())
isETHToken(tokenAddress) ==
  \E k \in 1..Len(ethAddresses) : ethAddresses[k] = toLowerCase(tokenAddress)

\* ------------------------------------------ tokenTransferService: amounts
\* the numeric prefix parseFloat reads: digits with at most one point
NumericPrefix(s) ==
  LET Fits(n) ==
        /\ \A k \in 1..n : IsDigit(s[k], DecDigits) \/ s[k] = "."
        /\ Cardinality({k \in 1..n : s[k] = "."}) <= 1
  IN SubSeq(s, 1, CHOOSE n \in 0..Len(s) :
                    Fits(n) /\ \A m \in (n + 1)..Len(s) : ~Fits(m))

\* parseFloat(amount) as far as the code looks at it: "nan", "zero" or "pos"
\* (the amounts of the model carry no sign, exponent or white space)
parseFloat(s) ==
  LET digits == SelectSeq(NumericPrefix(s), LAMBDA c : c # ".")
  IN IF digits = <<>> THEN "nan"
     ELSE IF \A k \in 1..Len(digits) : digits[k] = "0" THEN "zero"
     ELSE "pos"

\* `isNaN(amountFloat) || amountFloat <= 0`
InvalidAmount(amount) == parseFloat(amount) \in {"nan", "zero"}

\* parseUnits accepts digits with at most one point
ParseUnitsThrows(amount) == NumericPrefix(amount) # amount

\* digits without their leading zeros
StripLeadingZeros(ds) ==
  IF \A k \in 1..Len(ds) : ds[k] = "0" THEN <<"0">>
  ELSE SubSeq(ds, CHOOSE k \in 1..Len(ds) :
                    ds[k] # "0" /\ \A j \in 1..(k - 1) : ds[j] = "0", Len(ds))

\* parseUnits(amount, decimals).toString(): the amount in smallest units (the
\* amounts of the model have at most `decimals` digits after the point)
ParseUnits(amount, decimals) ==
  LET point == IF \E k \in 1..Len(amount) : amount[k] = "."
               THEN CHOOSE k \in 1..Len(amount) : amount[k] = "."
               ELSE Len(amount) + 1
      integer == SubSeq(amount, 1, point - 1)
      fraction == SubSeq(amount, point + 1, Len(amount))
  IN StripLeadingZeros(integer \o fraction
                       \o [k \in 1..(decimals - Len(fraction)) |-> "0"])

\* ------------------------------------- tokenTransferService: the transfer
SendTokenResult(success, txHash, uoHash, error) ==
  RebalanceResult(success, txHash, uoHash, error, None)

\* catch block of sendTokenUniversal
TransferCatch(err) ==
  Returned(SendTokenResult(FALSE, None, None,
             Some(IF err.kind \in {"Error", "string"} THEN err.message
                  ELSE "Unknown error occurred")))

\* `client?.account?.address`: a smart account client has an account; the
\* unified clients have an address and no account
AccountAddress(c) == IF c.kind = "smartAccount" THEN c.address ELSE ""

\* `client.sendBatchedTransactions && typeof ... === 'function'`
IsUnifiedClient(c) == c.kind \in {"alchemy", "minikit"}

MissingParameters(p) ==
  p.tokenAddress = "" \/ p.recipientAddress = "" \/ p.amount = <<>>

\* encodeFunctionData for transfer(to, amount)
TransferData(recipient, amountInWei) == <<"transfer", recipient, amountInWei>>

\* the transaction handed to a unified client
TransferTransaction(p) ==
  IF isETHToken(p.tokenAddress)
  THEN [to |-> p.recipientAddress, data |-> <<"0x">>,
        value |-> Some(ParseUnits(p.amount, 18)), type |-> "ETH_TRANSFER", reqId |-> 0]
  ELSE [to |-> p.tokenAddress,
        data |-> TransferData(p.recipientAddress, ParseUnits(p.amount, p.decimals)),
        value |-> Some(<<"0">>), type |-> "ERC20_TRANSFER", reqId |-> 0]

\* the user operation handed to a smart account client
TransferUserOperation(p) ==
  IF isETHToken(p.tokenAddress)
  THEN [target |-> p.recipientAddress, data |-> <<"0x">>,
        value |-> ParseUnits(p.amount, 18)]
  ELSE [target |-> p.tokenAddress,
        data |-> TransferData(p.recipientAddress, ParseUnits(p.amount, p.decimals)),
        value |-> <<"0">>]

TransferClients ==
  {c \in Clients : c.kind # "null"}
    \cup {[kind |-> "smartAccount", address |-> UserAddress],
          [kind |-> "smartAccount", address |-> ""]}

TransferParams ==
  [tokenAddress : {NativeToken, ChecksumNative, ZeroAddress, Usdc, ""},
   recipientAddress : {"0xRecipient", ""},
   amount : {<<"1", ".", "5">>, <<"0", ".", "2", "5">>, <<"0">>, <<"2", "x">>,
             <<"a", "b", "c">>, <<>>},
   decimals : {6, 18}]

TransferInit ==
  /\ entry = "sendTokenUniversal"
  /\ client \in TransferClients
  /\ params \in TransferParams
  /\ swapInstructions = <<>>
  /\ batch = None
  /\ pc = entry
  /\ stack = <<entry>>
  /\ transactions = <<>>
  /\ i = 1
  /\ requests = <<>>
  /\ walletLog = <<>>
  /\ userOpHash = ""
  /\ generated = None
  /\ genError = None
  /\ outcome = Pending
  /\ MatcherIdle

\* sendTokenUniversal up to its first await
SendTokenUniversal ==
  /\ pc = "sendTokenUniversal"
  /\ IF AccountAddress(client) = ""
     THEN /\ Complete(TransferCatch(Err("Smart account client not available")))
          /\ UNCHANGED <<batch, walletLog>>
     ELSE IF MissingParameters(params)
     THEN /\ Complete(TransferCatch(Err("Missing required parameters")))
          /\ UNCHANGED <<batch, walletLog>>
     ELSE IF InvalidAmount(params.amount)
     THEN /\ Complete(TransferCatch(Err("Invalid amount")))
          /\ UNCHANGED <<batch, walletLog>>
     ELSE IF ParseUnitsThrows(params.amount)
     THEN /\ Complete(TransferCatch(Err("Invalid decimal number")))
          /\ UNCHANGED <<batch, walletLog>>
     ELSE IF IsUnifiedClient(client)
     THEN /\ batch' = Some(<<TransferTransaction(params)>>)
          /\ stack' = Append(stack, "sendBatchedTransactions")
          /\ pc' = "sendBatchedTransactions"
          /\ UNCHANGED <<outcome, walletLog>>
     ELSE /\ walletLog' = Append(walletLog,
               WalletEvent("sendUserOperation", "call",
                           <<TransferUserOperation(params)>>, ""))
          /\ pc' = "awaitTransferUserOperation"
          /\ UNCHANGED <<batch, stack, outcome>>
  /\ UNCHANGED <<entry, client, swapInstructions, transactions, i, requests,
                 userOpHash, generated, genError>>
  /\ UNCHANGED <<params, mvars>>

TransferUserOperationAccepted ==
  /\ pc = "awaitTransferUserOperation"
  /\ \E userOpResult \in UserOpResults :
       /\ userOpHash' = UserOpHashOf(userOpResult)
       /\ walletLog' = walletLog \o
            << WalletEvent("sendUserOperation", "return", <<>>,
                           IF userOpResult.isString THEN userOpResult.str
                           ELSE userOpResult.hash),
               WalletEvent("waitForUserOperationTransaction", "call", <<>>,
                           UserOpHashOf(userOpResult)) >>
  /\ pc' = "awaitTransferMined"
  /\ UNCHANGED <<entry, client, swapInstructions, batch, stack, transactions, i,
                 requests, generated, genError, outcome>>
  /\ UNCHANGED <<params, mvars>>

TransferUserOperationRejected ==
  /\ pc = "awaitTransferUserOperation"
  /\ \E err \in WalletThrows :
       /\ walletLog' = Append(walletLog, WalletEvent("sendUserOperation", "throw", <<>>, ""))
       /\ Complete(TransferCatch(err))
  /\ UNCHANGED <<entry, client, swapInstructions, batch, transactions, i, requests,
                 userOpHash, generated, genError>>
  /\ UNCHANGED <<params, mvars>>

TransferMined ==
  /\ pc = "awaitTransferMined"
  /\ \E txHash \in TxHashes :
       /\ walletLog' = Append(walletLog,
            WalletEvent("waitForUserOperationTransaction", "return", <<>>, txHash))
       /\ Complete(Returned(SendTokenResult(TRUE, Some(txHash), Some(userOpHash), None)))
  /\ UNCHANGED <<entry, client, swapInstructions, batch, transactions, i, requests,
                 userOpHash, generated, genError>>
  /\ UNCHANGED <<params, mvars>>

TransferWaitFails ==
  /\ pc = "awaitTransferMined"
  /\ \E err \in WalletThrows :
       /\ walletLog' = Append(walletLog,
            WalletEvent("waitForUserOperationTransaction", "throw", <<>>, ""))
       /\ Complete(TransferCatch(err))
  /\ UNCHANGED <<entry, client, swapInstructions, batch, transactions, i, requests,
                 userOpHash, generated, genError>>
  /\ UNCHANGED <<params, mvars>>

TransferNext ==
  \/ SendTokenUniversal
  \/ TransferUserOperationAccepted
  \/ TransferUserOperationRejected
  \/ TransferMined
  \/ TransferWaitFails

TransferSpec == TransferInit /\ [][TransferNext]_<<vars, mvars>>

\* ---------------------------------------------------------- specification
Next ==
  \/ ExecutePortfolioRebalancing
  \/ GenerateTransactionsFromSwaps
  \/ GenerateLoop
  \/ ApprovalResponds
  \/ ApprovalFails
  \/ SwapResponds
  \/ SwapFails
  \/ RebalancePortfolio
  \/ AlchemySendBatchedTransactions
  \/ AlchemyUserOperationAccepted
  \/ AlchemyUserOperationRejected
  \/ AlchemyMined
  \/ AlchemyWaitFails
  \/ MiniKitSendBatchedTransactions
  \/ MiniKitCallsSubmitted
  \/ MiniKitCallsRejected

Spec == Init /\ [][Next]_vars

\* ================================================================ properties
Done == pc = "done"
HasResult == Done /\ outcome.kind = "returned" /\ outcome.result # None
Result == Get(outcome.result)

RequiresApproval(swap) == swap.fromToken # NativeToken
GroupSize(swap) == IF RequiresApproval(swap) THEN 2 ELSE 1

\* position, in the generated list, of the first transaction of instruction k
RECURSIVE GroupStart(_)
GroupStart(k) ==
  IF k = 1 THEN 1 ELSE GroupStart(k - 1) + GroupSize(swapInstructions[k - 1])

AnswersApprovalOf(tx, swap) ==
  /\ tx.type = "approval"
  /\ tx.reqId \in 1..Len(requests)
  /\ requests[tx.reqId].api = "approve"
  /\ requests[tx.reqId].src = swap.fromToken
  /\ requests[tx.reqId].amount = swap.amountInWei

AnswersSwapOf(tx, swap) ==
  /\ tx.type = "swap"
  /\ tx.reqId \in 1..Len(requests)
  /\ requests[tx.reqId].api = "swap"
  /\ requests[tx.reqId].src = swap.fromToken
  /\ requests[tx.reqId].dst = swap.toToken
  /\ requests[tx.reqId].amount = swap.amountInWei

\* C1: in the list generateTransactionsFromSwaps returns, the groups
\* (approval?, swap) follow the order of the input instructions, and for an
\* instruction that requires an approval the approval requested for its sell
\* token and amountInWei sits immediately before its swap.
C1_ApprovalImmediatelyBeforeSwap ==
  generated # None =>
    LET txs == Get(generated)
        n == Len(swapInstructions)
    IN /\ Len(txs) = GroupStart(n + 1) - 1
       /\ \A k \in 1..n :
            LET swap == swapInstructions[k]
                p == GroupStart(k)
            IN IF RequiresApproval(swap)
               THEN AnswersApprovalOf(txs[p], swap) /\ AnswersSwapOf(txs[p + 1], swap)
               ELSE AnswersSwapOf(txs[p], swap)

C1_Witness ==
  /\ generated # None
  /\ Len(swapInstructions) = 2
  /\ RequiresApproval(swapInstructions[1])
  /\ RequiresApproval(swapInstructions[2])
  /\ swapInstructions[1].amountInWei # swapInstructions[2].amountInWei
  /\ Len(Get(generated)) = 4

\* C2: when a collaborator call fails during generation, the error leaves
\* generateTransactionsFromSwaps (no list is returned, not even the part
\* already built), the failed request is the last request ever issued, and
\* no batch reaches the wallet.
C2_GenerationFailsFast ==
  genError # None =>
    /\ generated = None
    /\ Done
    /\ Len(requests) = Len(transactions) + 1
    /\ walletLog = <<>>
    /\ entry = "generateTransactionsFromSwaps" =>
         outcome.kind = "threw" /\ outcome.err = genError

C2_Witness ==
  /\ genError # None
  /\ entry = "executePortfolioRebalancing"
  /\ ~ClientUnavailable(client)
  /\ Len(transactions) >= 2
  /\ Done

\* C3: sendBatchedTransactions of either backend never raises: whatever the
\* input (an empty or missing list, a value BigInt cannot parse, a wallet
\* call that throws) the call resolves to a RebalanceResult, with
\* success=false and an error message in each of those cases.
C3_SendNeverRaises ==
  (entry = "sendBatchedTransactions" /\ Done) =>
    /\ outcome.kind = "returned"
    /\ outcome.result # None
    /\ (\/ NoTransactions(batch)
        \/ MapThrows(Get(batch))
        \/ \E k \in 1..Len(walletLog) : walletLog[k].phase = "throw")
         => ~Result.success /\ Result.error # None

\* C4: executePortfolioRebalancing always resolves to a RebalanceResult; an
\* error raised during generation becomes success=false with that error's
\* message.
C4_ExecuteNeverRaises ==
  (entry = "executePortfolioRebalancing" /\ Done) =>
    /\ outcome.kind = "returned"
    /\ outcome.result # None
    /\ genError # None =>
         /\ ~Result.success
         /\ Result.error = Some(Get(genError).message)

C4_Witness ==
  /\ entry = "executePortfolioRebalancing"
  /\ Done
  /\ genError # None
  /\ requests # <<>>

DescriptiveErrors ==
  {"Smart account client not available", "Wallet address not available",
   "No transactions to execute", "Transaction client not available"}

\* C5: with an unresolvable account address or an empty transaction
\* sequence nothing is ever handed to the wallet, and the call returns
\* success=false with a descriptive error.
C5_PreconditionsFailFast ==
  (/\ entry \in {"sendBatchedTransactions", "rebalancePortfolio"}
   /\ (ClientUnavailable(client) \/ NoTransactions(batch))) =>
    /\ walletLog = <<>>
    /\ (Done /\ batch # None) =>
         /\ outcome.kind = "returned"
         /\ outcome.result # None
         /\ ~Result.success
         /\ Result.error # None
         /\ Get(Result.error) \in DescriptiveErrors

C5_Witness ==
  /\ entry = "sendBatchedTransactions"
  /\ Done
  /\ client.address = ""
  /\ batch # None
  /\ Len(Get(batch)) = 2
  /\ HasResult

\* C6: every RebalanceResult is either (success, a transaction identifier,
\* no error) or (failure, an error message, no identifier).
C6_ResultShape ==
  HasResult =>
    \/ Result.success /\ Result.txHash # None /\ Result.error = None
    \/ /\ ~Result.success
       /\ Result.error # None
       /\ Result.txHash = None
       /\ Result.userOpHash = None

C6_Witness ==
  /\ HasResult
  /\ Result.success
  /\ client.kind = "alchemy"
  /\ entry = "executePortfolioRebalancing"

\* The number a Transaction.value field denotes: nothing and "" are zero, a
\* run of decimal digits is that number, a 0x literal is hexadecimal.
Denotes(v) ==
  IF v = None \/ v = Some(<<>>) THEN 0
  ELSE IF Get(v)[1] = "0" /\ Len(Get(v)) > 1 /\ Get(v)[2] = "x"
       THEN NumVal(SubSeq(Get(v), 3, Len(Get(v))), HexDigits)
  ELSE NumVal(Get(v), DecDigits)

Submissions ==
  {k \in 1..Len(walletLog) :
     walletLog[k].phase = "call" /\ walletLog[k].op \in {"sendUserOperation", "sendCalls"}}

SameCall(call, tx) ==
  /\ call.data = tx.data
  /\ call.value = Denotes(tx.value)
  /\ IF client.kind = "alchemy" THEN call.target = tx.to ELSE call.to = tx.to

\* C7: one attempt hands the wallet at most one submission, exactly one when
\* it succeeds, and that submission holds every input transaction once, in
\* the input order, with target, call data and value unchanged.
C7_OneBatchAllTransactions ==
  /\ Cardinality(Submissions) <= 1
  /\ (HasResult /\ Result.success) => Cardinality(Submissions) = 1
  /\ \A k \in Submissions :
       /\ batch # None
       /\ Len(walletLog[k].calls) = Len(Get(batch))
       /\ \A j \in 1..Len(Get(batch)) : SameCall(walletLog[k].calls[j], Get(batch)[j])

C7_Witness ==
  /\ client.kind = "minikit"
  /\ Submissions # {}
  /\ Len(Get(batch)) = 2
  /\ Get(batch)[1] # Get(batch)[2]
  /\ Denotes(Get(batch)[1].value) > 0
  /\ HasResult
  /\ Result.success

WaitCalls ==
  {k \in 1..Len(walletLog) :
     walletLog[k].op = "waitForUserOperationTransaction" /\ walletLog[k].phase = "call"}

\* C8: Backend A issues the wait for mining only after sendUserOperation has
\* returned, with the identifier it returned; success is reported only after
\* the wait has returned and carries both identifiers.
C8_AlchemyWaitsForMining ==
  /\ \A k \in WaitCalls :
       /\ k > 1
       /\ walletLog[k - 1].op = "sendUserOperation"
       /\ walletLog[k - 1].phase = "return"
       /\ walletLog[k].hash = walletLog[k - 1].hash
  /\ (HasResult /\ Result.success /\ client.kind = "alchemy") =>
       /\ Len(walletLog) = 4
       /\ walletLog[4].op = "waitForUserOperationTransaction"
       /\ walletLog[4].phase = "return"
       /\ Result.txHash = Some(walletLog[4].hash)
       /\ Result.userOpHash = Some(walletLog[2].hash)

C8_Witness ==
  /\ HasResult
  /\ Result.success
  /\ client.kind = "alchemy"
  /\ WaitCalls # {}
  /\ entry = "sendBatchedTransactions"

\* C9: Backend B reports success as soon as sendCalls has returned, with no
\* wait for mining, and the result carries the identifier sendCalls returned.
C9_MiniKitReturnsCallsId ==
  (HasResult /\ Result.success /\ client.kind = "minikit") =>
    /\ Len(walletLog) = 2
    /\ walletLog[1].op = "sendCalls" /\ walletLog[1].phase = "call"
    /\ walletLog[2].op = "sendCalls" /\ walletLog[2].phase = "return"
    /\ Result.txHash = Some(walletLog[2].hash)

C9_Witness ==
  /\ HasResult
  /\ Result.success
  /\ client.kind = "minikit"
  /\ entry = "executePortfolioRebalancing"

\* C10 as written: given zero swap instructions, the orchestrator contacts no
\* collaborator and its result is not an error outcome.
C10_NothingToDoIsNotAnError ==
  (entry = "executePortfolioRebalancing" /\ swapInstructions = <<>> /\ Done) =>
    /\ requests = <<>>
    /\ walletLog = <<>>
    /\ HasResult
    /\ Result.error = None

\* C10 amended: given zero swap instructions, the orchestrator contacts no
\* collaborator and returns success=false with the error of the first failed
\* precondition: "Transaction client not available" or "No transactions to
\* execute".
C10_EmptyPlanIsRejected ==
  (entry = "executePortfolioRebalancing" /\ swapInstructions = <<>>) =>
    /\ requests = <<>>
    /\ walletLog = <<>>
    /\ Done =>
         /\ HasResult
         /\ ~Result.success
         /\ Result.error = Some(IF ClientUnavailable(client)
                                THEN "Transaction client not available"
                                ELSE "No transactions to execute")

C10_Witness ==
  /\ entry = "executePortfolioRebalancing"
  /\ swapInstructions = <<>>
  /\ ~ClientUnavailable(client)
  /\ Done
  /\ generated = Some(<<>>)

SellsNative(swap) == swap.fromToken = NativeToken

Base == 32768
LimbBits == 15
MantissaBits == 53

RECURSIVE BFromInt(_)
BFromInt(n) == IF n = 0 THEN <<>> ELSE <<n % Base>> \o BFromInt(n \div Base)

RECURSIVE BNorm(_)
BNorm(a) ==
  IF a = <<>> THEN <<>>
  ELSE IF a[Len(a)] = 0 THEN BNorm(SubSeq(a, 1, Len(a) - 1)) ELSE a

\* -1, 0, 1 as a < b, a = b, a > b
BCmp(a, b) ==
  LET RECURSIVE From(_)
      From(k) == IF k = 0 THEN 0
                 ELSE IF a[k] < b[k] THEN -1
                 ELSE IF a[k] > b[k] THEN 1
                 ELSE From(k - 1)
  IN IF Len(a) < Len(b) THEN -1 ELSE IF Len(a) > Len(b) THEN 1 ELSE From(Len(a))

BAdd(a, b) ==
  LET Limb(s, k) == IF k <= Len(s) THEN s[k] ELSE 0
      RECURSIVE From(_, _)
      From(k, carry) ==
        IF k > Len(a) /\ k > Len(b)
        THEN IF carry = 0 THEN <<>> ELSE <<carry>>
        ELSE <<(Limb(a, k) + Limb(b, k) + carry) % Base>>
             \o From(k + 1, (Limb(a, k) + Limb(b, k) + carry) \div Base)
  IN From(1, 0)

\* a - b for a >= b
BSub(a, b) ==
  LET Limb(s, k) == IF k <= Len(s) THEN s[k] ELSE 0
      RECURSIVE From(_, _)
      From(k, borrow) ==
        IF k > Len(a) THEN <<>>
        ELSE IF a[k] - Limb(b, k) - borrow < 0
        THEN <<a[k] - Limb(b, k) - borrow + Base>> \o From(k + 1, 1)
        ELSE <<a[k] - Limb(b, k) - borrow>> \o From(k + 1, 0)
  IN BNorm(From(1, 0))

\* a * n for 0 <= n < Base
BMulSmall(a, n) ==
  LET RECURSIVE From(_, _)
      From(k, carry) ==
        IF k > Len(a) THEN (IF carry = 0 THEN <<>> ELSE <<carry>>)
        ELSE <<(a[k] * n + carry) % Base>> \o From(k + 1, (a[k] * n + carry) \div Base)
  IN IF n = 0 THEN <<>> ELSE From(1, 0)

\* a * Base^n
BShiftLimbs(a, n) == IF a = <<>> THEN <<>> ELSE [k \in 1..n |-> 0] \o a

BMul(a, b) ==
  LET RECURSIVE From(_)
      From(k) == IF k > Len(b) THEN <<>>
                 ELSE BAdd(BShiftLimbs(BMulSmall(a, b[k]), k - 1), From(k + 1))
  IN From(1)

\* a * 2^n
BShl(a, n) == BShiftLimbs(BMulSmall(a, 2 ^ (n % LimbBits)), n \div LimbBits)

\* quotient and remainder of a by n, 0 < n <= Base
BDivSmall(a, n) ==
  LET RECURSIVE From(_, _)
      From(k, rem) ==
        IF k = 0 THEN [q |-> <<>>, r |-> rem]
        ELSE LET rest == From(k - 1, (rem * Base + a[k]) % n)
             IN [q |-> Append(rest.q, (rem * Base + a[k]) \div n), r |-> rest.r]
  IN [q |-> BNorm(From(Len(a), 0).q), r |-> From(Len(a), 0).r]

\* floor(a / 2^n)
BShr(a, n) ==
  IF n \div LimbBits >= Len(a) THEN <<>>
  ELSE BDivSmall(SubSeq(a, n \div LimbBits + 1, Len(a)), 2 ^ (n % LimbBits)).q

\* number of bits of a
BBitLen(a) ==
  IF a = <<>> THEN 0
  ELSE (Len(a) - 1) * LimbBits
       + CHOOSE k \in 1..LimbBits : 2 ^ (k - 1) <= a[Len(a)] /\ a[Len(a)] < 2 ^ k

BIsOdd(a) == a # <<>> /\ a[1] % 2 = 1

\* quotient and remainder of a by b, b > 0: long division from the most
\* significant limb down; FindQ finds the largest d in lo..hi with d * b <= cur.
BDiv(a, b) ==
  LET RECURSIVE FindQ(_, _, _)
      FindQ(cur, lo, hi) ==
        IF lo = hi THEN lo
        ELSE IF BCmp(BMulSmall(b, (lo + hi + 1) \div 2), cur) <= 0
        THEN FindQ(cur, (lo + hi + 1) \div 2, hi)
        ELSE FindQ(cur, lo, (lo + hi + 1) \div 2 - 1)
      RECURSIVE From(_, _)
      From(k, rem) ==
        IF k = 0 THEN [q |-> <<>>, r |-> rem]
        ELSE LET cur == BNorm(<<a[k]>> \o rem)
                 d == FindQ(cur, 0, Base - 1)
                 rest == From(k - 1, BSub(cur, BMulSmall(b, d)))
             IN [q |-> Append(rest.q, d), r |-> rest.r]
  IN [q |-> BNorm(From(Len(a), <<>>).q), r |-> From(Len(a), <<>>).r]

RECURSIVE BPow10(_)
BPow10(n) == IF n < 4 THEN <<10 ^ n>> ELSE BMulSmall(BPow10(n - 4), 10000)

\* decimal digits of a, most significant first ("0" for zero)
BDigits(a) ==
  LET Digits4(n) ==
        <<DecDigits[(n \div 1000) + 1], DecDigits[((n \div 100) % 10) + 1],
          DecDigits[((n \div 10) % 10) + 1], DecDigits[(n % 10) + 1]>>
      Leading(n) ==
        SubSeq(Digits4(n),
               IF n >= 1000 THEN 1 ELSE IF n >= 100 THEN 2 ELSE IF n >= 10 THEN 3 ELSE 4, 4)
      RECURSIVE From(_)
      From(s) ==
        LET d == BDivSmall(s, 10000)
        IN IF d.q = <<>> THEN Leading(d.r) ELSE From(d.q) \o Digits4(d.r)
  IN IF a = <<>> THEN <<"0">> ELSE From(a)

\* A Number: kind "num" is sign * m * 2^e with m = 0 or 2^52 <= m < 2^53.
Num(sign, m, e) == [kind |-> "num", sign |-> sign, m |-> m, e |-> e]
Zero == Num(1, <<>>, 0)
NaN == [kind |-> "nan", sign |-> 1, m |-> <<>>, e |-> 0]
Infinity(sign) == [kind |-> "inf", sign |-> sign, m |-> <<>>, e |-> 0]

\* The Number nearest to sign * n * 2^e (+ a little more when sticky), ties to
\* even.  RoundOff drops the low `drop` bits of n, of which q is the rest.
RoundNum(sign, n, e, sticky) ==
  LET RoundsUp(q, c) == c > 0 \/ (c = 0 /\ (sticky \/ BIsOdd(q)))
      Carry(m, exp) ==
        IF BBitLen(m) > MantissaBits THEN Num(sign, BShr(m, 1), exp + 1)
        ELSE Num(sign, m, exp)
      RoundOff(drop, q) ==
        Carry(IF RoundsUp(q, BCmp(BSub(n, BShl(q, drop)), BShl(<<1>>, drop - 1)))
              THEN BAdd(q, <<1>>) ELSE q,
              e + drop)
      RoundTo(len) ==
        IF len <= MantissaBits
        THEN Num(sign, BShl(n, MantissaBits - len), e - (MantissaBits - len))
        ELSE RoundOff(len - MantissaBits, BShr(n, len - MantissaBits))
  IN IF n = <<>> THEN Zero ELSE RoundTo(BBitLen(n))

NumFromBig(n) == RoundNum(1, n, 0, FALSE)
NumFromInt(n) == IF n < 0 THEN RoundNum(-1, BFromInt(-n), 0, FALSE) ELSE NumFromBig(BFromInt(n))

Neg(x) == [x EXCEPT !.sign = -x.sign]
Abs(x) == [x EXCEPT !.sign = 1]
IsZero(x) == x.kind = "num" /\ x.m = <<>>

\* x < y; every comparison with NaN is false
Less(x, y) ==
  LET CmpMag ==
        IF x.m = <<>> THEN (IF y.m = <<>> THEN 0 ELSE -1)
        ELSE IF y.m = <<>> THEN 1
        ELSE IF x.e < y.e THEN -1
        ELSE IF x.e > y.e THEN 1
        ELSE BCmp(x.m, y.m)
  IN IF x.kind = "nan" \/ y.kind = "nan" THEN FALSE
     ELSE IF x.kind = "inf" THEN x.sign = -1 /\ ~(y.kind = "inf" /\ y.sign = -1)
     ELSE IF y.kind = "inf" THEN y.sign = 1
     ELSE IF IsZero(x) /\ IsZero(y) THEN FALSE
     ELSE IF x.sign # y.sign THEN (IF IsZero(x) THEN y.sign = 1
                                   ELSE IF IsZero(y) THEN x.sign = -1
                                   ELSE x.sign = -1)
     ELSE IF x.sign = 1 THEN CmpMag < 0 ELSE CmpMag > 0

\* x + y
Add(x, y) ==
  IF x.kind # "num" \/ y.kind # "num"
  THEN (IF x.kind = "nan" \/ y.kind = "nan" THEN NaN
        ELSE IF x.kind = "inf" /\ y.kind = "inf" /\ x.sign # y.sign THEN NaN
        ELSE IF x.kind = "inf" THEN x ELSE y)
  ELSE IF x.m = <<>> THEN y
  ELSE IF y.m = <<>> THEN x
  ELSE LET e == IF x.e < y.e THEN x.e ELSE y.e
           a == BShl(x.m, x.e - e)
           b == BShl(y.m, y.e - e)
       IN IF x.sign = y.sign THEN RoundNum(x.sign, BAdd(a, b), e, FALSE)
          ELSE IF BCmp(a, b) = 0 THEN Zero
          ELSE IF BCmp(a, b) > 0 THEN RoundNum(x.sign, BSub(a, b), e, FALSE)
          ELSE RoundNum(y.sign, BSub(b, a), e, FALSE)

Sub(x, y) == Add(x, Neg(y))

Mul(x, y) ==
  IF x.kind = "nan" \/ y.kind = "nan" THEN NaN
  ELSE IF x.kind = "inf" \/ y.kind = "inf"
  THEN (IF IsZero(x) \/ IsZero(y) THEN NaN ELSE Infinity(x.sign * y.sign))
  ELSE RoundNum(x.sign * y.sign, BMul(x.m, y.m), x.e + y.e, FALSE)

\* x / y, with the IEEE results for zero and infinite operands
Div(x, y) ==
  LET Quotient(qr) ==
        RoundNum(x.sign * y.sign, qr.q, x.e - y.e - (MantissaBits + 3), qr.r # <<>>)
  IN IF x.kind = "nan" \/ y.kind = "nan" THEN NaN
     ELSE IF x.kind = "inf"
     THEN (IF y.kind = "inf" THEN NaN ELSE Infinity(x.sign * y.sign))
     ELSE IF y.kind = "inf" THEN Num(x.sign * y.sign, <<>>, 0)
     ELSE IF IsZero(y) THEN (IF IsZero(x) THEN NaN ELSE Infinity(x.sign * y.sign))
     ELSE IF IsZero(x) THEN Num(x.sign * y.sign, <<>>, 0)
     ELSE Quotient(BDiv(BShl(x.m, MantissaBits + 3), y.m))

\* Math.floor of a non-negative finite Number, as a natural number
FloorBig(x) ==
  IF x.m = <<>> THEN <<>>
  ELSE IF x.e >= 0 THEN BShl(x.m, x.e)
  ELSE BShr(x.m, -x.e)

\* Math.floor of a non-negative Number
Floor(x) == IF x.kind = "num" THEN NumFromBig(FloorBig(x)) ELSE x

\* digits without their trailing zeros
StripZeros(ds) ==
  IF \A k \in 1..Len(ds) : ds[k] = "0" THEN <<"0">>
  ELSE SubSeq(ds, 1, CHOOSE k \in 1..Len(ds) :
                       ds[k] # "0" /\ \A j \in (k + 1)..Len(ds) : ds[j] = "0")

\* Number::toString prints the decimal s * 10^(n - k) with the fewest digits k
\* (at most 17) that reads back as the integral Number x = v and, of the (at
\* most two) such decimals, the one nearest to v, the even s on a tie.  Around
\* v the decimals of k digits are `low` and `low + p`, p = 10^(len - k).
\* The result is that decimal, as a natural number.
Shortest(x, v) ==
  LET len == Len(BDigits(v))
      ReadsAs(n) == NumFromBig(n) = x
      WorksAround(low, p) == ReadsAs(low) \/ ReadsAs(BAdd(low, p))
      Works(k) ==
        WorksAround(BMul(BDiv(v, BPow10(len - k)).q, BPow10(len - k)), BPow10(len - k))
      RECURSIVE Fewest(_, _)
      Fewest(lo, hi) ==
        IF lo = hi THEN lo
        ELSE IF Works((lo + hi) \div 2) THEN Fewest(lo, (lo + hi) \div 2)
        ELSE Fewest((lo + hi) \div 2 + 1, hi)
      Nearest(low, high, p) ==
        IF ~ReadsAs(high) THEN low
        ELSE IF ~ReadsAs(low) THEN high
        ELSE IF BCmp(BSub(v, low), BSub(high, v)) < 0 THEN low
        ELSE IF BCmp(BSub(v, low), BSub(high, v)) > 0 THEN high
        ELSE IF BIsOdd(BDiv(low, p).q) THEN high ELSE low
      NearestAround(low, p) == Nearest(low, BAdd(low, p), p)
      Of(k) ==
        NearestAround(BMul(BDiv(v, BPow10(len - k)).q, BPow10(len - k)), BPow10(len - k))
  IN IF BBitLen(v) <= MantissaBits THEN v
     ELSE Of(Fewest(1, IF len < 17 THEN len ELSE 17))

\* Number.prototype.toString() of a non-negative integral Number: plain digits
\* below 10^21, exponent notation from there on.
NumberToString(x) ==
  LET Notation(ds) ==
        IF Len(ds) <= 21 THEN ds
        ELSE <<ds[1]>>
             \o (IF Len(StripZeros(ds)) > 1 THEN <<".">> \o Tail(StripZeros(ds)) ELSE <<>>)
             \o <<"e", "+">> \o BDigits(BFromInt(Len(ds) - 1))
  IN IF x.kind = "nan" THEN <<"N", "a", "N">>
     ELSE IF x.kind = "inf" THEN <<"I", "n", "f", "i", "n", "i", "t", "y">>
     ELSE Notation(BDigits(Shortest(x, FloorBig(x))))

\* ------------------------------------------------------ optimizer: steps
\* The Number a decimal literal num/den denotes (<<1, 0>> is Infinity, as
\* 1e400 reads).
Lit(l) == Div(NumFromInt(l[1]), NumFromInt(l[2]))

\* the literal 0.01 of calculateDeltas, separateSurplusDeficit and the loop
Tolerance == Lit(<<1, 100>>)

\* Mutant: the larger of the two amounts is traded.
MinTakesLarger(a, b) ==
  IF a.kind = "nan" \/ b.kind = "nan" THEN NaN ELSE IF Less(b, a) THEN a ELSE b
\* Math.min
Min(a, b) ==
  IF a.kind = "nan" \/ b.kind = "nan" THEN NaN ELSE IF Less(b, a) THEN b ELSE a

\* Math.pow(10, decimals)
Pow10(decimals) == NumFromBig(BPow10(decimals))

usdToTokenWei(usdAmount, tokenPrice, decimals) ==
  LET tokenAmount == Div(usdAmount, tokenPrice)
      amountInWei == Floor(Mul(tokenAmount, Pow10(decimals)))
  IN NumberToString(amountInWei)

\* Mutant: every token gets a TokenDelta.
SignificantAlways(deltaUsd) == TRUE

\* the test `Math.abs(deltaUsd) > 0.01` of calculateDeltas
Significant(deltaUsd) == Less(Tolerance, Abs(deltaUsd))

\* the TokenDelta calculateDeltas builds for a token (symbol, a display name, left out)
TokenDelta(token) ==
  [address |-> token.address,
   decimals |-> token.decimals,
   currentUsd |-> token.value_usd,
   targetUsd |-> token.target_value_usd,
   deltaUsd |-> Sub(token.target_value_usd, token.value_usd),
   currentPrice |-> Div(token.value_usd, token.amount)]

calculateDeltas(tokens) ==
  SelectSeq([k \in 1..Len(tokens) |-> TokenDelta(tokens[k])],
            LAMBDA d : Significant(d.deltaUsd))

\* Mutant: the two comparators are swapped.
SortOpposite(s, ascending) ==
  LET Before(a, b) == IF ascending THEN Less(Sub(b.deltaUsd, a.deltaUsd), Zero)
                      ELSE Less(Sub(a.deltaUsd, b.deltaUsd), Zero)
      rank(k) == 1 + Cardinality({j \in 1..Len(s) :
                   j # k /\ (Before(s[j], s[k]) \/ (~Before(s[k], s[j]) /\ j < k))})
  IN [r \in 1..Len(s) |-> s[CHOOSE k \in 1..Len(s) : rank(k) = r]]
\* Array.prototype.sort (stable) with the comparator a.deltaUsd - b.deltaUsd
\* when ascending, b.deltaUsd - a.deltaUsd otherwise; an element goes before
\* another when the comparator is negative.
Sort(s, ascending) ==
  LET Before(a, b) == IF ascending THEN Less(Sub(a.deltaUsd, b.deltaUsd), Zero)
                      ELSE Less(Sub(b.deltaUsd, a.deltaUsd), Zero)
      rank(k) == 1 + Cardinality({j \in 1..Len(s) :
                   j # k /\ (Before(s[j], s[k]) \/ (~Before(s[k], s[j]) /\ j < k))})
  IN [r \in 1..Len(s) |-> s[CHOOSE k \in 1..Len(s) : rank(k) = r]]

\* Mutant: the two lists are filtered and left in input order.
separateSurplusDeficitUnsorted(ds) ==
  [surplus |-> SelectSeq(ds, LAMBDA d : Less(d.deltaUsd, Neg(Tolerance))),
   deficit |-> SelectSeq(ds, LAMBDA d : Less(Tolerance, d.deltaUsd))]
\* surplus most negative first, deficit most positive first
separateSurplusDeficit(ds) ==
  [surplus |-> Sort(SelectSeq(ds, LAMBDA d : Less(d.deltaUsd, Neg(Tolerance))), TRUE),
   deficit |-> Sort(SelectSeq(ds, LAMBDA d : Less(Tolerance, d.deltaUsd)), FALSE)]

\* `Math.abs(token.deltaUsd) < 0.01`: the head is balanced and is shifted out
Balanced(deltaUsd) == Less(Abs(deltaUsd), Tolerance)

\* ----------------------------------------------------- optimizer: inputs
MaxTokens == 3
MaxIterations == 6

TokenAddresses == <<"0xTokenA", "0xTokenB", "0xTokenC", "0xTokenD", "0xTokenE">>

\* a PortfolioTokenWithTarget (the fields generateOptimalSwaps reads), its three
\* Numbers given by the decimal literals that denote them; `written` keeps the
\* literals, for stating properties in exact arithmetic.
Token(address, decimals, amount, value_usd, target_value_usd) ==
  [address |-> address, decimals |-> decimals, amount |-> Lit(amount),
   value_usd |-> Lit(value_usd), target_value_usd |-> Lit(target_value_usd),
   written |-> [amount |-> amount, value_usd |-> value_usd,
                target_value_usd |-> target_value_usd]]

\* What a token of a portfolio can look like: holding, worth and target.
Holdings ==
  {Token("", 6, <<100, 1>>, <<100, 1>>, <<100016, 1000>>),
   Token("", 6, <<100, 1>>, <<100, 1>>, <<99992, 1000>>),
   Token("", 18, <<5, 100>>, <<100, 1>>, <<150, 1>>),
   Token("", 18, <<5, 100>>, <<100, 1>>, <<50, 1>>),
   Token("", 8, <<2, 1>>, <<100, 1>>, <<130005, 1000>>),
   Token("", 8, <<2, 1>>, <<100, 1>>, <<70, 1>>)}

\* up to MaxTokens tokens, each with one of the holdings
SmallPortfolios ==
  UNION {{[k \in 1..n |-> [hs[k] EXCEPT !.address = TokenAddresses[k]]]
          : hs \in [1..n -> Holdings]} : n \in 1..MaxTokens}

\* four tokens worth $250 each, targets $500, $300, $100, $100
FourTokens ==
  <<Token("0xTokenA", 18, <<1, 10>>, <<250, 1>>, <<500, 1>>),
    Token("0xTokenB", 6, <<250, 1>>, <<250, 1>>, <<300, 1>>),
    Token("0xTokenC", 8, <<1, 100>>, <<250, 1>>, <<100, 1>>),
    Token("0xTokenD", 18, <<500, 1>>, <<250, 1>>, <<100, 1>>)>>

\* five tokens worth $10 each: surplus $7 and $5, deficit $6, $5 and $1
FiveTokens ==
  <<Token("0xTokenA", 6, <<10, 1>>, <<10, 1>>, <<3, 1>>),
    Token("0xTokenB", 6, <<10, 1>>, <<10, 1>>, <<5, 1>>),
    Token("0xTokenC", 6, <<10, 1>>, <<10, 1>>, <<16, 1>>),
    Token("0xTokenD", 6, <<10, 1>>, <<10, 1>>, <<15, 1>>),
    Token("0xTokenE", 6, <<10, 1>>, <<10, 1>>, <<11, 1>>)>>

\* all of a holding of 0.1 token (18 decimals, worth $58.17) is to be sold
SellAll ==
  <<Token("0xTokenA", 18, <<1, 10>>, <<5817, 100>>, <<0, 1>>),
    Token("0xTokenB", 6, <<100, 1>>, <<100, 1>>, <<200, 1>>)>>

\* 2000 tokens of 18 decimals, worth $4000, are to be sold
LargeSale ==
  <<Token("0xTokenA", 18, <<2000, 1>>, <<4000, 1>>, <<0, 1>>),
    Token("0xTokenB", 6, <<100, 1>>, <<100, 1>>, <<5000, 1>>)>>

\* degenerate data: a token worth $50 of which nothing is held
ZeroAmount ==
  <<Token("0xTokenA", 18, <<0, 1>>, <<50, 1>>, <<0, 1>>),
    Token("0xTokenB", 6, <<100, 1>>, <<100, 1>>, <<150, 1>>)>>

\* degenerate data: a worth and a target that read as Infinity
InfiniteValues ==
  <<Token("0xTokenA", 18, <<1, 1>>, <<1, 0>>, <<0, 1>>),
    Token("0xTokenB", 6, <<100, 1>>, <<100, 1>>, <<1, 0>>)>>

\* targets that add up to the worth, two of them within a cent of the worth
Dust ==
  <<Token("0xTokenA", 6, <<100, 1>>, <<100, 1>>, <<150016, 1000>>),
    Token("0xTokenB", 18, <<5, 100>>, <<100, 1>>, <<50, 1>>),
    Token("0xTokenC", 6, <<100, 1>>, <<100, 1>>, <<99992, 1000>>),
    Token("0xTokenD", 6, <<100, 1>>, <<100, 1>>, <<99992, 1000>>)>>

\* a deficit that is exactly 0.01 as a Number once the first surplus is met
CentLeft ==
  <<Token("0xTokenA", 6, <<1, 1>>, <<3, 1000>>, <<24, 1000>>),
    Token("0xTokenB", 6, <<1, 1>>, <<17, 1000>>, <<6, 1000>>),
    Token("0xTokenC", 6, <<100, 1>>, <<10001, 100>>, <<100, 1>>)>>

\* one surplus of $150.92 against deficits of $54.26, $53.80 and $42.86
Uneven ==
  <<Token("0xTokenA", 6, <<300, 1>>, <<300, 1>>, <<14908, 100>>),
    Token("0xTokenB", 6, <<1, 1>>, <<1, 1>>, <<5526, 100>>),
    Token("0xTokenC", 6, <<2, 1>>, <<2, 1>>, <<4486, 100>>),
    Token("0xTokenD", 6, <<2, 1>>, <<2, 1>>, <<558, 10>>)>>

Portfolios ==
  SmallPortfolios \cup {FourTokens, FiveTokens, SellAll, LargeSale, ZeroAmount,
                        Tail(ZeroAmount), InfiniteValues, Dust, CentLeft, Uneven}

\* ---------------------------------------------------- optimizer: actions
\* The transaction pipeline is not running while the optimizer is examined.
PipelineIdle ==
  /\ entry = "generateOptimalSwaps"
  /\ client = [kind |-> "null", address |-> ""]
  /\ swapInstructions = <<>>
  /\ batch = None
  /\ pc = "idle"
  /\ stack = <<>>
  /\ transactions = <<>>
  /\ i = 1
  /\ requests = <<>>
  /\ walletLog = <<>>
  /\ userOpHash = ""
  /\ generated = None
  /\ genError = None
  /\ outcome = Pending
  /\ params = NoParams

MatcherInit ==
  /\ PipelineIdle
  /\ tokensWithTargets \in Portfolios
  /\ deltas = <<>>
  /\ mpc = "generateOptimalSwaps"
  /\ surplusCopy = <<>>
  /\ deficitCopy = <<>>
  /\ swaps = <<>>
  /\ previous = None

\* generateOptimalSwaps up to the loop of generateOptimalSwapPairs, or its
\* early return when no token needs rebalancing.
GenerateOptimalSwaps ==
  /\ mpc = "generateOptimalSwaps"
  /\ deltas' = calculateDeltas(tokensWithTargets)
  /\ IF deltas' = <<>>
     THEN /\ mpc' = "done"
          /\ UNCHANGED <<surplusCopy, deficitCopy>>
     ELSE /\ surplusCopy' = separateSurplusDeficit(deltas').surplus
          /\ deficitCopy' = separateSurplusDeficit(deltas').deficit
          /\ mpc' = "while"
  /\ swaps' = <<>>
  /\ UNCHANGED <<tokensWithTargets, previous, vars>>

\* The objects of a call: the tokens handed in, and the TokenDelta records
\* calculateDeltas builds with an object literal, one per token it keeps.
ObjectOfToken(token) == <<"PortfolioTokenWithTarget", token.address>>
\* Mutant: the delta fields are attached to the token handed in.
ObjectOfDeltaIsToken(d) == <<"PortfolioTokenWithTarget", d.address>>
ObjectOfDelta(d) == <<"TokenDelta", d.address>>

\* `object.field = value`
SetField(object, field, value) ==
  [f \in DOMAIN object \cup {field} |-> IF f = field THEN value ELSE object[f]]

\* the tokens handed in once `d.deltaUsd = value` has been executed
TokensAfterWrite(tokens, d, value) ==
  [k \in 1..Len(tokens) |->
     IF ObjectOfToken(tokens[k]) = ObjectOfDelta(d)
     THEN SetField(tokens[k], "deltaUsd", value) ELSE tokens[k]]

\* One iteration of the while loop of generateOptimalSwapPairs.
GenerateOptimalSwapPairs ==
  /\ mpc = "while"
  /\ Len(surplusCopy) > 0 /\ Len(deficitCopy) > 0
  /\ Len(swaps) < MaxIterations
  /\ LET sellToken == surplusCopy[1]
         buyToken == deficitCopy[1]
         sellAmount == Abs(sellToken.deltaUsd)
         buyAmount == Abs(buyToken.deltaUsd)
         swapAmountUsd == Min(sellAmount, buyAmount)
         amountInWei == usdToTokenWei(swapAmountUsd, sellToken.currentPrice,
                                      sellToken.decimals)
         sellDelta == Add(sellToken.deltaUsd, swapAmountUsd)
         buyDelta == Sub(buyToken.deltaUsd, swapAmountUsd)
     IN /\ swaps' = Append(swaps, [fromToken |-> sellToken.address,
                                   toToken |-> buyToken.address,
                                   amountInWei |-> amountInWei,
                                   amountUsd |-> swapAmountUsd])
        /\ surplusCopy' = IF Balanced(sellDelta) THEN Tail(surplusCopy)
                          ELSE <<[sellToken EXCEPT !.deltaUsd = sellDelta]>>
                               \o Tail(surplusCopy)
        /\ deficitCopy' = IF Balanced(buyDelta) THEN Tail(deficitCopy)
                          ELSE <<[buyToken EXCEPT !.deltaUsd = buyDelta]>>
                               \o Tail(deficitCopy)
        /\ tokensWithTargets' =
             TokensAfterWrite(TokensAfterWrite(tokensWithTargets, sellToken, sellDelta),
                              buyToken, buyDelta)
  /\ UNCHANGED <<deltas, mpc, previous, vars>>

\* The loop condition fails: generateOptimalSwapPairs returns swaps.
ReturnSwaps ==
  /\ mpc = "while"
  /\ ~(Len(surplusCopy) > 0 /\ Len(deficitCopy) > 0)
  /\ mpc' = "done"
  /\ UNCHANGED <<tokensWithTargets, deltas, surplusCopy, deficitCopy, swaps, previous,
                 vars>>

\* The caller asks for the instructions of the same portfolio once more.
CallAgain ==
  /\ mpc = "done"
  /\ previous = None
  /\ previous' = Some(swaps)
  /\ mpc' = "generateOptimalSwaps"
  /\ deltas' = <<>>
  /\ surplusCopy' = <<>>
  /\ deficitCopy' = <<>>
  /\ swaps' = <<>>
  /\ UNCHANGED <<tokensWithTargets, vars>>

MatcherNext ==
  \/ GenerateOptimalSwaps
  \/ GenerateOptimalSwapPairs
  \/ ReturnSwaps
  \/ CallAgain

MatcherSpec == MatcherInit /\ [][MatcherNext]_<<vars, mvars>>

\* ------------------------------------------------- optimizer: properties
MatcherDone == mpc = "done"
Addresses(ds) == {ds[k].address : k \in 1..Len(ds)}
Traded == {swaps[k].fromToken : k \in 1..Len(swaps)} \cup {swaps[k].toToken : k \in 1..Len(swaps)}

\* |target_value_usd - value_usd| <= 0.01, on the token's Numbers
WithinTolerance(token) ==
  ~Less(Tolerance, Abs(Sub(token.target_value_usd, token.value_usd)))

\* C11: a token within $0.01 of its target has no TokenDelta, is in neither
\* the surplus nor the deficit list, and is neither the from-token nor the
\* to-token of an instruction; when every token is within $0.01 of its
\* target, generateOptimalSwaps returns the empty sequence.
C11_ToleratedTokensNeverAppear ==
  /\ \A k \in 1..Len(tokensWithTargets) :
       WithinTolerance(tokensWithTargets[k]) =>
         tokensWithTargets[k].address \notin
           Addresses(deltas) \cup Addresses(surplusCopy) \cup Addresses(deficitCopy) \cup Traded
  /\ (MatcherDone /\ \A k \in 1..Len(tokensWithTargets) :
                          WithinTolerance(tokensWithTargets[k])) => swaps = <<>>

C11_Witness ==
  /\ MatcherDone
  /\ Len(swaps) > 0
  /\ \E k \in 1..Len(tokensWithTargets) : WithinTolerance(tokensWithTargets[k])

\* the sorted lists handed to generateOptimalSwapPairs
Surplus == separateSurplusDeficit(deltas).surplus
Deficit == separateSurplusDeficit(deltas).deficit

Mills(l) == (l[1] * 1000) \div l[2]
RECURSIVE SumMills(_, _)
SumMills(tokens, field) ==
  IF tokens = <<>> THEN 0
  ELSE Mills(Head(tokens).written[field]) + SumMills(Tail(tokens), field)
\* exact conservation upstream: the targets add up to the worth
Conserved(tokens) ==
  /\ \A k \in 1..Len(tokens) :
       tokens[k].written.value_usd[2] # 0 /\ tokens[k].written.target_value_usd[2] # 0
  /\ SumMills(tokens, "target_value_usd") = SumMills(tokens, "value_usd")
\* the sum of the remaining |deltaUsd| of a list, added up as Numbers
RECURSIVE Remaining(_)
Remaining(ds) ==
  IF ds = <<>> THEN Zero
  ELSE Add(Abs(Head(ds).deltaUsd), Remaining(Tail(ds)))
\* the input tokens that calculateDeltas left out
Dropped == Len(tokensWithTargets) - Len(deltas)

RECURSIVE DigitsValue(_)
DigitsValue(s) ==
  IF s = <<>> THEN <<>>
  ELSE BAdd(BMulSmall(DigitsValue(SubSeq(s, 1, Len(s) - 1)), 10),
            BFromInt(DigitVal(s[Len(s)], DecDigits)))
\* the natural number a printed amount denotes, "d.ddde+NN" included
Denoted(s) ==
  LET HasExp == \E k \in 1..Len(s) : s[k] = "e"
      ePos == CHOOSE k \in 1..Len(s) : s[k] = "e"
      mantissa == SubSeq(s, 1, ePos - 1)
      digits == SelectSeq(mantissa, LAMBDA c : c # ".")
      exponent == NumVal(SubSeq(s, ePos + 2, Len(s)), DecDigits)
  IN IF HasExp
     THEN BMul(DigitsValue(digits), BPow10(exponent - (Len(digits) - 1)))
     ELSE DigitsValue(s)
\* what the instructions ask to sell of a token, in its smallest units
RECURSIVE Sold(_, _)
Sold(address, instructions) ==
  IF instructions = <<>> THEN <<>>
  ELSE BAdd(IF Head(instructions).fromToken = address
            THEN Denoted(Head(instructions).amountInWei) ELSE <<>>,
            Sold(address, Tail(instructions)))
\* a token of which something is held and whose target is between nothing
\* and its worth
Sellable(token) ==
  /\ token.written.amount[1] > 0 /\ token.written.amount[2] > 0
  /\ token.written.value_usd[2] > 0 /\ token.written.target_value_usd[2] > 0
  /\ 0 <= Mills(token.written.target_value_usd)
  /\ Mills(token.written.target_value_usd) <= Mills(token.written.value_usd)
\* sold <= amount * 10^decimals, the amount being written as num/den
WithinHolding(token, sold) ==
  BCmp(BMulSmall(sold, token.written.amount[2]),
       BMul(BFromInt(token.written.amount[1]), BPow10(token.decimals))) <= 0

\* C14: for every sell token with amount > 0 and 0 <= target_value_usd <=
\* value_usd, the instructions that sell it ask in total for at most the
\* holding in smallest units, amount * 10^decimals.
C14_NeverSellsMoreThanHeld ==
  \A k \in 1..Len(tokensWithTargets) :
    Sellable(tokensWithTargets[k]) =>
      WithinHolding(tokensWithTargets[k], Sold(tokensWithTargets[k].address, swaps))

\* every worth, target and holding of the portfolio is written as a finite
\* decimal
FiniteInput ==
  \A k \in 1..Len(tokensWithTargets) :
    /\ tokensWithTargets[k].written.amount[2] > 0
    /\ tokensWithTargets[k].written.value_usd[2] > 0
    /\ tokensWithTargets[k].written.target_value_usd[2] > 0

\* C15: the amountInWei of every instruction is a run of decimal digits (no
\* sign, fraction, exponent notation, NaN or Infinity), whatever the size of
\* the swap, amounts of 10^21 smallest units or more included.
C15_AmountInWeiIsDigitsOnly ==
  FiniteInput =>
    \A k \in 1..Len(swaps) : AllDigits(swaps[k].amountInWei, DecDigits)

\* the same Number
Same(a, b) == a.kind = "num" /\ b.kind = "num" /\ ~Less(a, b) /\ ~Less(b, a)
\* an instruction sells `from` for `to`, worth `usd` dollars
Swaps(instruction, from, to, usd) ==
  /\ instruction.fromToken = from
  /\ instruction.toToken = to
  /\ Same(instruction.amountUsd, NumFromInt(usd))
\* the amountUsd of the instructions, added up as Numbers
RECURSIVE TotalUsd(_)
TotalUsd(instructions) ==
  IF instructions = <<>> THEN Zero
  ELSE Add(Head(instructions).amountUsd, TotalUsd(Tail(instructions)))

\* C18: for four tokens worth $250 each with targets A=$500, B=$300, C=$100,
\* D=$100, generateOptimalSwaps returns exactly three instructions, in this
\* order: C to A for $150, D to A for $100, D to B for $50; their amountUsd
\* total $300, the total surplus and the total deficit.
C18_FourTokensExample ==
  (tokensWithTargets = FourTokens /\ MatcherDone) =>
    /\ Len(swaps) = 3
    /\ Swaps(swaps[1], "0xTokenC", "0xTokenA", 150)
    /\ Swaps(swaps[2], "0xTokenD", "0xTokenA", 100)
    /\ Swaps(swaps[3], "0xTokenD", "0xTokenB", 50)
    /\ Same(TotalUsd(swaps), NumFromInt(300))
    /\ Same(Remaining(Surplus), NumFromInt(300))
    /\ Same(Remaining(Deficit), NumFromInt(300))
    /\ surplusCopy = <<>> /\ deficitCopy = <<>>

\* generateOptimalSwaps has returned for the four tokens
C18_Witness ==
  tokensWithTargets = FourTokens /\ MatcherDone /\ Len(swaps) = 3

\* what a token is from its target, in thousandths of a dollar
DeltaMills(token) ==
  Mills(token.written.target_value_usd) - Mills(token.written.value_usd)
\* A grouping gives every token a group; it settles the portfolio when the
\* deltas of every group add up to nothing, and then the tokens of a group
\* of g tokens reach their targets with g - 1 swaps among themselves.
RECURSIVE GroupSum(_, _, _)
GroupSum(tokens, grouping, g) ==
  IF tokens = <<>> THEN 0
  ELSE (IF grouping[Len(tokens)] = g THEN DeltaMills(tokens[Len(tokens)]) ELSE 0)
       + GroupSum(SubSeq(tokens, 1, Len(tokens) - 1), grouping, g)
Settles(tokens, grouping) ==
  \A g \in 1..Len(tokens) : GroupSum(tokens, grouping, g) = 0
SwapsOf(tokens, grouping) ==
  Len(tokens) - Cardinality({grouping[k] : k \in 1..Len(tokens)})

\* C19: for every portfolio whose targets conserve total value, no set of
\* swaps that brings every token to its target has fewer swaps than the
\* sequence generateOptimalSwaps returns.
C19_NoSmallerSetOfSwaps ==
  (MatcherDone /\ Conserved(tokensWithTargets) /\ Dropped = 0) =>
    \A grouping \in [1..Len(tokensWithTargets) -> 1..Len(tokensWithTargets)] :
      Settles(tokensWithTargets, grouping) =>
        Len(swaps) <= SwapsOf(tokensWithTargets, grouping)

\* degenerate data: nothing is held of the token, yet it has a worth
Degenerate(token) ==
  /\ token.written.amount[1] = 0
  /\ token.written.value_usd[1] # 0
\* the portfolio without its k-th token
Without(tokens, k) == SubSeq(tokens, 1, k - 1) \o SubSeq(tokens, k + 1, Len(tokens))

\* C20: a token with amount = 0 and value_usd # 0 yields no TokenDelta and
\* appears in no instruction, and the deltas of the other tokens are those of
\* the portfolio without it.
C20_ZeroAmountTokenIsSkipped ==
  mpc # "generateOptimalSwaps" =>
    \A k \in 1..Len(tokensWithTargets) :
      Degenerate(tokensWithTargets[k]) =>
        /\ tokensWithTargets[k].address \notin Addresses(deltas)
        /\ tokensWithTargets[k].address \notin Traded
        /\ swaps = <<>> => deltas = calculateDeltas(Without(tokensWithTargets, k))

\* =========================================================================
\* Further properties of the pipeline and of the optimizer
\* =========================================================================

\* C21: every RebalanceResult executePortfolioRebalancing returns (success,
\* submission failure, failure during generation) carries a
\* transactionCount, and when a batch was handed to a backend it is the
\* number of transactions of that batch.
C21_ResultCarriesTransactionCount ==
  (entry = "executePortfolioRebalancing" /\ HasResult) =>
    /\ Result.transactionCount # None
    /\ Submissions # {} => Result.transactionCount = Some(Len(Get(batch)))

\* a unified transaction client whose address is resolvable, with a token, a
\* recipient and an amount above zero
UnifiedClientValidTransfer ==
  /\ entry = "sendTokenUniversal"
  /\ IsUnifiedClient(client) /\ client.address # ""
  /\ ~MissingParameters(params)
  /\ ~InvalidAmount(params.amount)
  /\ ~ParseUnitsThrows(params.amount)

\* C22: given a unified transaction client (AlchemyTransactionClient or
\* MiniKitTransactionClient) whose address is resolvable and valid
\* parameters, sendTokenUniversal hands exactly one transfer transaction to
\* that client's sendBatchedTransactions, and does not report a failure
\* without having done so.
C22_UnifiedClientSubmitsOneTransfer ==
  (UnifiedClientValidTransfer /\ pc # "sendTokenUniversal") =>
    /\ batch # None
    /\ Len(Get(batch)) = 1

\* C29: the transaction generator and the token-transfer service agree on
\* the native asset: for every token address (the all-e sentinel in lower
\* case or checksum case, the zero address, an ERC-20 address),
\* get1inchApprovalTransaction skips the approval exactly when isETHToken
\* classifies the address as ETH.
C29_NativeAssetAgreement ==
  (entry = "sendTokenUniversal" /\ params.tokenAddress # "") =>
    (SkipsApproval(params.tokenAddress) <=> isETHToken(params.tokenAddress))

\* a collaborator request is over once its transaction was pushed or its
\* error aborted the generation
Answered(r) == \E t \in 1..Len(transactions) : transactions[t].reqId = r
Failed(r) == genError # None /\ r = Len(requests)
OutstandingRequests == {r \in 1..Len(requests) : ~Answered(r) /\ ~Failed(r)}

\* C23: during generation at most one collaborator request is outstanding,
\* every request but the last one issued is over, and the swap request of an
\* instruction that needs an approval is issued right after that approval
\* request was answered.
C23_OneRequestAtATime ==
  /\ Cardinality(OutstandingRequests) <= 1
  /\ OutstandingRequests \subseteq {Len(requests)}
  /\ \A r \in 1..Len(requests) :
       (requests[r].api = "swap" /\ requests[r].src # NativeToken) =>
         /\ r > 1
         /\ requests[r - 1].api = "approve"
         /\ requests[r - 1].src = requests[r].src
         /\ requests[r - 1].amount = requests[r].amount
         /\ Answered(r - 1)

\* two instructions that need an approval were generated with four requests
C23_Witness ==
  /\ generated # None
  /\ Len(requests) = 4
  /\ \A r \in 1..4 : Answered(r)
  /\ requests[1].api = "approve" /\ requests[3].api = "approve"

\* where the entry of a token stands in the list calculateDeltas returned
PositionInDeltas(d) == CHOOSE k \in 1..Len(deltas) : deltas[k].address = d.address
\* what makes an entry a surplus (a deficit) entry, and what makes one entry
\* go before another in the surplus (the deficit) list
Belongs(d, ofSurplus) ==
  IF ofSurplus THEN Less(d.deltaUsd, Neg(Tolerance)) ELSE Less(Tolerance, d.deltaUsd)
GoesFirst(a, b, ofSurplus) ==
  IF ofSurplus THEN Less(a.deltaUsd, b.deltaUsd) ELSE Less(b.deltaUsd, a.deltaUsd)
\* one of the lists separateSurplusDeficit returns: it holds exactly the
\* entries of deltas that belong to it, each once, those that go first
\* before the others, and entries of equal deltaUsd in input order
Separated(list, ofSurplus) ==
  /\ \A k \in 1..Len(list) :
       Belongs(list[k], ofSurplus) /\ list[k] = deltas[PositionInDeltas(list[k])]
  /\ \A k \in 1..Len(deltas) :
       Belongs(deltas[k], ofSurplus) => \E j \in 1..Len(list) : list[j] = deltas[k]
  /\ Len(list) = Cardinality({k \in 1..Len(deltas) : Belongs(deltas[k], ofSurplus)})
  /\ \A j, k \in 1..Len(list) :
       j < k =>
         /\ ~GoesFirst(list[k], list[j], ofSurplus)
         /\ ~GoesFirst(list[j], list[k], ofSurplus) =>
              PositionInDeltas(list[j]) < PositionInDeltas(list[k])

\* C24: separateSurplusDeficit returns as surplus exactly the deltas with
\* deltaUsd < -0.01, most negative first, and as deficit exactly the deltas
\* with deltaUsd > 0.01, largest first; entries with equal deltaUsd keep
\* their input order.
C24_SeparatedAndSorted ==
  /\ Separated(Surplus, TRUE)
  /\ Separated(Deficit, FALSE)
  /\ (mpc = "while" /\ swaps = <<>>) =>
       surplusCopy = Surplus /\ deficitCopy = Deficit

\* three surplus entries were put in order, two of them equal
C24_Witness ==
  /\ mpc = "while" /\ swaps = <<>>
  /\ Len(surplusCopy) = 3
  /\ ~Less(surplusCopy[1].deltaUsd, surplusCopy[2].deltaUsd)
  /\ Less(surplusCopy[2].deltaUsd, surplusCopy[3].deltaUsd)
  /\ surplusCopy # deltas

\* C25: in every iteration swapAmountUsd is strictly greater than 0.01, so
\* every instruction emitted has amountUsd > 0.01.
C25_EverySwapAboveTolerance ==
  FiniteInput =>
    \A k \in 1..Len(swaps) : Less(Tolerance, swaps[k].amountUsd)

RECURSIVE UsdTraded(_, _, _)
UsdTraded(address, selling, instructions) ==
  IF instructions = <<>> THEN Zero
  ELSE LET last == instructions[Len(instructions)]
           rest == UsdTraded(address, selling, SubSeq(instructions, 1, Len(instructions) - 1))
       IN IF (IF selling THEN last.fromToken ELSE last.toToken) = address
          THEN Add(rest, last.amountUsd) ELSE rest

AcceptedBatches ==
  {k \in 1..Len(walletLog) :
     walletLog[k].op = "sendUserOperation" /\ walletLog[k].phase = "return"}

UniqueAddresses ==
  \A j, k \in 1..Len(tokensWithTargets) :
    tokensWithTargets[j].address = tokensWithTargets[k].address => j = k
\* where the entry of a token stands in a sorted list
Place(list, address) == CHOOSE k \in 1..Len(list) : list[k].address = address

====
